---- MODULE Spec2Model ----
(***************************************************************************)
(* Model of calculate_fid_excel.py: main() sweeps the steps x eta grid,    *)
(* calls the FID engine once per point whose sample folder exists, then    *)
(* builds the pandas pivot table and writes fid_results.xlsx / .csv / .txt *)
(* and prints the console summary.                                         *)
(*                                                                         *)
(* Eta values are written in tenths (0.2 is 2, 1.0 is 10); FID values are  *)
(* small naturals.  None stands for Python's None and for the NaN that     *)
(* pandas stores for it.  A mean is kept as the pair [sum, cnt]; cnt = 0   *)
(* is the NaN pandas returns for a mean over no values.                    *)
(***************************************************************************)
EXTENDS Integers, Sequences, FiniteSets, TLC

\* ---------------------------------------------------------------- bounds
MaxLen == 2
MaxPoints == 4
MaxMetric == 2

StepsVals == {10, 20}
EtaVals == {0, 10, 3}
Metrics == 0..MaxMetric
UserInputs == {"y", "Y", "n", "yes"}

\* ------------------------------------------------------- program constants
None == -1

eta_to_folder == (0 :> "eta_0") @@ (2 :> "eta_02") @@ (5 :> "eta_05") @@ (10 :> "eta_1")

VARIABLES steps_list, eta_list, samples_exists, reference_exists, folders,
          pc, exc, si, ei, current, results, calls,
          warned, user_input,
          pivot_table, workbook, csvfile, textfile, printed

vars == <<steps_list, eta_list, samples_exists, reference_exists, folders,
          pc, exc, si, ei, current, results, calls,
          warned, user_input,
          pivot_table, workbook, csvfile, textfile, printed>>

config == <<steps_list, eta_list, samples_exists, reference_exists, folders>>
loopv == <<si, ei, current, results, calls>>
outv == <<pivot_table, workbook, csvfile, textfile, printed>>

\* ------------------------------------------------------------ pure helpers
SeqsUpTo(S, n) == UNION {[1..k -> S] : k \in 0..n}

Range(s) == {s[k] : k \in DOMAIN s}

\* str.lower() on the answers the model feeds to input()
Lower(s) == IF s = "Y" THEN "y" ELSE s

\* a slip that compares the raw answer
ContinueExact(inp) == inp = "y"

Continue(inp) == Lower(inp) = "y"

Record(steps, eta, fid) == [steps |-> steps, eta |-> eta, fid |-> fid]

\* one entry of results.append({...})
AppendResult(rs, steps, eta, fid) == Append(rs, Record(steps, eta, fid))

Fids(rs) == [k \in DOMAIN rs |-> rs[k].fid]

\* pandas skips NaN/None in reductions
Valid(col) == {k \in DOMAIN col : col[k] # None}

\* a 'fid' column holding only None keeps dtype object
AllNone(col) == Valid(col) = {}

MinOf(S) == CHOOSE x \in S : \A y \in S : x <= y
MaxOf(S) == CHOOSE x \in S : \A y \in S : x >= y

RECURSIVE SumOver(_, _)
SumOver(col, K) ==
    IF K = {} THEN 0
    ELSE LET k == CHOOSE x \in K : TRUE IN col[k] + SumOver(col, K \ {k})

\* Series.mean(): NaN entries are dropped from the sum and from the count
MeanOver(col, K) ==
    LET V == K \cap Valid(col) IN [sum |-> SumOver(col, V), cnt |-> Cardinality(V)]

\* Series.min() / Series.max(), NaN when nothing is left
ColMin(col) == IF AllNone(col) THEN None ELSE MinOf({col[k] : k \in Valid(col)})
ColMax(col) == IF AllNone(col) THEN None ELSE MaxOf({col[k] : k \in Valid(col)})

\* a slip that keeps the last of several equal minima
IdxMinLast(col) ==
    LET V == Valid(col) IN
    CHOOSE k \in V : (\A m \in V : col[k] <= col[m])
                     /\ (\A m \in V : m > k => col[m] > col[k])
\* Series.idxmin() / idxmax() on the RangeIndex: label of the first extreme
IdxMin(col) ==
    LET V == Valid(col) IN
    CHOOSE k \in V : (\A m \in V : col[k] <= col[m])
                     /\ (\A m \in V : m < k => col[m] > col[k])
IdxMax(col) ==
    LET V == Valid(col) IN
    CHOOSE k \in V : (\A m \in V : col[k] >= col[m])
                     /\ (\A m \in V : m < k => col[m] < col[k])

RECURSIVE SortSet(_)
SortSet(S) ==
    IF S = {} THEN <<>>
    ELSE LET m == MinOf(S) IN <<m>> \o SortSet(S \ {m})

HasDuplicates(rs) ==
    \E a, b \in DOMAIN rs : a < b /\ rs[a].steps = rs[b].steps /\ rs[a].eta = rs[b].eta

\* df.pivot(index='steps', columns='eta', values='fid').sort_index():
\* both axes come out as the sorted distinct keys
Pivot(rs) ==
    LET S == {rs[k].steps : k \in DOMAIN rs}
        E == {rs[k].eta : k \in DOMAIN rs}
    IN [index |-> SortSet(S),
        columns |-> SortSet(E),
        cell |-> [p \in S \X E |->
                    LET k == CHOOSE k \in DOMAIN rs : rs[k].steps = p[1] /\ rs[k].eta = p[2]
                    IN rs[k].fid]]

\* df.groupby('eta')['fid'].mean().reset_index(): groups in sorted key order
AvgByEta(rs) ==
    LET keys == SortSet({rs[k].eta : k \in DOMAIN rs}) IN
    [g \in DOMAIN keys |->
        [key |-> keys[g],
         avg |-> MeanOver(Fids(rs), {k \in DOMAIN rs : rs[k].eta = keys[g]})]]

AvgBySteps(rs) ==
    LET keys == SortSet({rs[k].steps : k \in DOMAIN rs}) IN
    [g \in DOMAIN keys |->
        [key |-> keys[g],
         avg |-> MeanOver(Fids(rs), {k \in DOMAIN rs : rs[k].steps = keys[g]})]]

\* the loops of the text report: one line per element of the input list
TextAvgByEta(rs, etas) ==
    [g \in DOMAIN etas |->
        [key |-> etas[g],
         avg |-> MeanOver(Fids(rs), {k \in DOMAIN rs : rs[k].eta = etas[g]})]]

TextAvgBySteps(rs, stepsl) ==
    [g \in DOMAIN stepsl |->
        [key |-> stepsl[g],
         avg |-> MeanOver(Fids(rs), {k \in DOMAIN rs : rs[k].steps = stepsl[g]})]]

Summary(rs) ==
    [min |-> ColMin(Fids(rs)), max |-> ColMax(Fids(rs)),
     mean |-> MeanOver(Fids(rs), DOMAIN rs)]

NoFile == [state |-> "absent"]

\* f"steps_{steps}_{eta_to_folder[eta]}"
FolderName(steps, eta) == "steps_" \o ToString(steps) \o "_" \o eta_to_folder[eta]

\* the sample folders the configured grid can ask for
GridFolders(stepsl, etas) ==
    {FolderName(stepsl[a], etas[b]) :
        a \in DOMAIN stepsl, b \in {x \in DOMAIN etas : etas[x] \in DOMAIN eta_to_folder}}

\* ------------------------------------------------------------------- Init
Init ==
    /\ steps_list \in SeqsUpTo(StepsVals, MaxLen)
    /\ eta_list \in SeqsUpTo(EtaVals, MaxLen)
    /\ Len(steps_list) * Len(eta_list) <= MaxPoints
    /\ samples_exists \in BOOLEAN
    /\ reference_exists \in BOOLEAN
    /\ folders \in SUBSET (IF samples_exists THEN GridFolders(steps_list, eta_list) ELSE {})
    /\ pc = "start"
    /\ exc = "none"
    /\ si = 1
    /\ ei = 1
    /\ current = 0
    /\ results = <<>>
    /\ calls = <<>>
    /\ warned = FALSE
    /\ user_input = "none"
    /\ pivot_table = NoFile
    /\ workbook = NoFile
    /\ csvfile = NoFile
    /\ textfile = NoFile
    /\ printed = NoFile

Running == exc = "none"

\* ------------------------------------------------------------ path checks
SamplesMissing ==
    /\ Running /\ pc = "start"
    /\ ~samples_exists
    /\ pc' = "no_samples"
    /\ UNCHANGED <<config, exc, loopv, warned, user_input, outv>>

ReferenceFound ==
    /\ Running /\ pc = "start"
    /\ samples_exists /\ reference_exists
    /\ pc' = "sweep"
    /\ UNCHANGED <<config, exc, loopv, warned, user_input, outv>>

ReferenceMissing ==
    /\ Running /\ pc = "start"
    /\ samples_exists /\ ~reference_exists
    /\ warned' = TRUE
    /\ pc' = "prompt"
    /\ UNCHANGED <<config, exc, loopv, user_input, outv>>

Answer ==
    /\ Running /\ pc = "prompt"
    /\ \E inp \in UserInputs :
         /\ user_input' = inp
         /\ pc' = IF Continue(inp) THEN "sweep" ELSE "aborted"
    /\ UNCHANGED <<config, exc, loopv, warned, outv>>

\* ------------------------------------------------------------------ sweep
AtPoint ==
    /\ Running /\ pc = "sweep"
    /\ si <= Len(steps_list) /\ ei <= Len(eta_list)

\* eta_to_folder[eta] raises KeyError; nothing catches it
UnknownEta ==
    /\ AtPoint
    /\ eta_list[ei] \notin DOMAIN eta_to_folder
    /\ current' = current + 1
    /\ exc' = "KeyError"
    /\ UNCHANGED <<config, pc, si, ei, results, calls, warned, user_input, outv>>

\* a slip that drops the os.path.exists test
FolderMissingInvokes ==
    /\ AtPoint
    /\ eta_list[ei] \in DOMAIN eta_to_folder
    /\ FolderName(steps_list[si], eta_list[ei]) \notin folders
    /\ current' = current + 1
    /\ calls' = Append(calls, [point |-> current + 1,
                               path |-> FolderName(steps_list[si], eta_list[ei]),
                               state |-> "pending", value |-> None])
    /\ pc' = "engine"
    /\ UNCHANGED <<config, exc, si, ei, results, warned, user_input, outv>>

FolderMissing ==
    /\ AtPoint
    /\ eta_list[ei] \in DOMAIN eta_to_folder
    /\ FolderName(steps_list[si], eta_list[ei]) \notin folders
    /\ current' = current + 1
    /\ results' = AppendResult(results, steps_list[si], eta_list[ei], None)
    /\ ei' = ei + 1
    /\ UNCHANGED <<config, pc, exc, si, calls, warned, user_input, outv>>

InvokeEngine ==
    /\ AtPoint
    /\ eta_list[ei] \in DOMAIN eta_to_folder
    /\ FolderName(steps_list[si], eta_list[ei]) \in folders
    /\ current' = current + 1
    /\ calls' = Append(calls, [point |-> current + 1,
                               path |-> FolderName(steps_list[si], eta_list[ei]),
                               state |-> "pending", value |-> None])
    /\ pc' = "engine"
    /\ UNCHANGED <<config, exc, si, ei, results, warned, user_input, outv>>

EngineReturns ==
    /\ Running /\ pc = "engine"
    /\ \E v \in Metrics :
         /\ calls' = [calls EXCEPT ![Len(calls)].state = "returned",
                                   ![Len(calls)].value = v]
         /\ results' = AppendResult(results, steps_list[si], eta_list[ei], v)
    /\ ei' = ei + 1
    /\ pc' = "sweep"
    /\ UNCHANGED <<config, exc, si, current, warned, user_input, outv>>

\* a slip that lets the exception end the loop instead of recording the point
EngineRaisesBreak ==
    /\ Running /\ pc = "engine"
    /\ calls' = [calls EXCEPT ![Len(calls)].state = "raised"]
    /\ pc' = "aggregate"
    /\ UNCHANGED <<config, exc, si, ei, current, results, warned, user_input, outv>>

EngineRaises ==
    /\ Running /\ pc = "engine"
    /\ calls' = [calls EXCEPT ![Len(calls)].state = "raised"]
    /\ results' = AppendResult(results, steps_list[si], eta_list[ei], None)
    /\ ei' = ei + 1
    /\ pc' = "sweep"
    /\ UNCHANGED <<config, exc, si, current, warned, user_input, outv>>

InnerLoopEnd ==
    /\ Running /\ pc = "sweep"
    /\ si <= Len(steps_list) /\ ei > Len(eta_list)
    /\ si' = si + 1
    /\ ei' = 1
    /\ UNCHANGED <<config, pc, exc, current, results, calls, warned, user_input, outv>>

OuterLoopEnd ==
    /\ Running /\ pc = "sweep"
    /\ si > Len(steps_list)
    /\ pc' = "aggregate"
    /\ UNCHANGED <<config, exc, loopv, warned, user_input, outv>>

\* ----------------------------------------------------------------- export
\* pd.DataFrame(results) and df.pivot(...): an empty frame has no 'steps'
\* column (KeyError), a repeated (steps, eta) pair cannot be reshaped (ValueError)
BuildPivot ==
    /\ Running /\ pc = "aggregate"
    /\ IF results = <<>>
       THEN exc' = "KeyError" /\ UNCHANGED <<pc, pivot_table>>
       ELSE IF HasDuplicates(results)
       THEN exc' = "ValueError" /\ UNCHANGED <<pc, pivot_table>>
       ELSE /\ pivot_table' = Pivot(results)
            /\ pc' = "excel"
            /\ exc' = exc
    /\ UNCHANGED <<config, loopv, warned, user_input, workbook, csvfile, textfile, printed>>

WriteExcel ==
    /\ Running /\ pc = "excel"
    /\ workbook' = [state |-> "written",
                    FID_Table |-> pivot_table,
                    Raw_Data |-> results,
                    Summary |-> Summary(results),
                    Avg_by_Eta |-> AvgByEta(results),
                    Avg_by_Steps |-> AvgBySteps(results)]
    /\ pc' = "csv"
    /\ UNCHANGED <<config, exc, loopv, warned, user_input, pivot_table, csvfile, textfile, printed>>

\* a slip that swallows the writer's error and goes on to the next artifact
WriteExcelFailsIgnored ==
    /\ Running /\ pc = "excel"
    /\ pc' = "csv"
    /\ UNCHANGED <<config, exc, loopv, warned, user_input, outv>>

\* the writer raises (disk, permissions, ...); main() has no handler
WriteExcelFails ==
    /\ Running /\ pc = "excel"
    /\ exc' = "OSError"
    /\ UNCHANGED <<config, pc, loopv, warned, user_input, outv>>

WriteCsv ==
    /\ Running /\ pc = "csv"
    /\ csvfile' = [state |-> "written", table |-> pivot_table]
    /\ pc' = "txt"
    /\ UNCHANGED <<config, exc, loopv, warned, user_input, pivot_table, workbook, textfile, printed>>

WriteCsvFails ==
    /\ Running /\ pc = "csv"
    /\ exc' = "OSError"
    /\ UNCHANGED <<config, pc, loopv, warned, user_input, outv>>

\* df['fid'].idxmin() finds no value: the report stops after the table
WriteTextNoData ==
    /\ Running /\ pc = "txt"
    /\ AllNone(Fids(results))
    /\ textfile' = [state |-> "partial", table |-> pivot_table]
    /\ exc' = "TypeError"
    /\ UNCHANGED <<config, pc, loopv, warned, user_input, pivot_table, workbook, csvfile, printed>>

WriteText ==
    /\ Running /\ pc = "txt"
    /\ ~AllNone(Fids(results))
    /\ textfile' = [state |-> "written",
                    table |-> pivot_table,
                    best |-> results[IdxMin(Fids(results))],
                    worst |-> results[IdxMax(Fids(results))],
                    avg_by_eta |-> TextAvgByEta(results, eta_list),
                    avg_by_steps |-> TextAvgBySteps(results, steps_list)]
    /\ pc' = "summary"
    /\ UNCHANGED <<config, exc, loopv, warned, user_input, pivot_table, workbook, csvfile, printed>>

\* open() or a write raises: the file is absent or cut short
WriteTextFails ==
    /\ Running /\ pc = "txt"
    /\ exc' = "OSError"
    /\ textfile' \in {NoFile, [state |-> "partial", table |-> pivot_table]}
    /\ UNCHANGED <<config, pc, loopv, warned, user_input, pivot_table, workbook, csvfile, printed>>

PrintSummary ==
    /\ Running /\ pc = "summary"
    /\ IF AllNone(Fids(results))
       THEN exc' = "TypeError" /\ UNCHANGED <<pc, printed>>
       ELSE /\ printed' = [state |-> "printed",
                           best |-> results[IdxMin(Fids(results))],
                           worst |-> results[IdxMax(Fids(results))],
                           mean |-> MeanOver(Fids(results), DOMAIN results)]
            /\ pc' = "done"
            /\ exc' = exc
    /\ UNCHANGED <<config, loopv, warned, user_input, pivot_table, workbook, csvfile, textfile>>

Next ==
    \/ SamplesMissing
    \/ ReferenceFound
    \/ ReferenceMissing
    \/ Answer
    \/ UnknownEta
    \/ FolderMissing
    \/ InvokeEngine
    \/ EngineReturns
    \/ EngineRaises
    \/ InnerLoopEnd
    \/ OuterLoopEnd
    \/ BuildPivot
    \/ WriteExcel
    \/ WriteExcelFails
    \/ WriteCsv
    \/ WriteCsvFails
    \/ WriteTextNoData
    \/ WriteText
    \/ WriteTextFails
    \/ PrintSummary

Spec == Init /\ [][Next]_vars

\* ------------------------------------------------------- shared vocabulary
SweepDone == pc \in {"aggregate", "excel", "csv", "txt", "summary", "done"}

NPoints == Len(steps_list) * Len(eta_list)

\* the k-th point of the cartesian product, steps outer, eta inner
PointSteps(k) == steps_list[((k - 1) \div Len(eta_list)) + 1]
PointEta(k) == eta_list[((k - 1) % Len(eta_list)) + 1]

NoRepeats(s) == \A a, b \in DOMAIN s : a # b => s[a] # s[b]

\* what happened at grid point k, read off the filesystem and the engine log
Absent(k) ==
    /\ PointEta(k) \in DOMAIN eta_to_folder
    /\ FolderName(PointSteps(k), PointEta(k)) \notin folders
Returned(k) == \E a \in DOMAIN calls : calls[a].point = k /\ calls[a].state = "returned"
Raised(k) == \E a \in DOMAIN calls : calls[a].point = k /\ calls[a].state = "raised"
ReturnedValue(k) ==
    LET a == CHOOSE a \in DOMAIN calls : calls[a].point = k IN calls[a].value

NoArtifact == workbook = NoFile /\ csvfile = NoFile /\ textfile = NoFile

\* ------------------------------------------------------------------- C1
\* C1: once the sweep loop has finished, results holds exactly one record per
\* grid point in grid order (steps outer, eta inner), whatever mix of absent
\* folders, engine errors and engine returns occurred; no point repeats when
\* the input lists have no repeated value; and the only exception that can
\* leave the loop is the lookup of an eta outside the token table.
C1_OneRecordPerPoint ==
    /\ SweepDone =>
         /\ Len(results) = NPoints
         /\ \A k \in DOMAIN results :
              results[k].steps = PointSteps(k) /\ results[k].eta = PointEta(k)
         /\ (NoRepeats(steps_list) /\ NoRepeats(eta_list)) =>
              \A a, b \in DOMAIN results :
                 a # b => <<results[a].steps, results[a].eta>> #
                          <<results[b].steps, results[b].eta>>
    /\ (pc \in {"sweep", "engine"} /\ exc # "none") =>
         eta_list[ei] \notin DOMAIN eta_to_folder

C1_Witness ==
    /\ pc = "aggregate"
    /\ Len(results) = 4
    /\ \E a, b, c \in DOMAIN results :
         Absent(a) /\ Raised(b) /\ Returned(c) /\ b < 4 /\ a < 4

\* ------------------------------------------------------------------- C2
\* C2: an eta outside the token table is rejected before any sweep work:
\* when the lookup fails, no record has been appended and the engine has not
\* been invoked.
C2_UnknownEtaBeforeSweep ==
    (pc = "sweep" /\ exc = "KeyError") => (results = <<>> /\ calls = <<>>)

\* ------------------------------------------------------------------- C3
\* C3: when every grid point's sample folder is absent the text report is
\* still written to its end; nothing but an I/O failure can stop it.
C3_NoDataStillExports ==
    (pc = "txt" /\ folders = {}) => exc \in {"none", "OSError"}

\* ------------------------------------------------------------------- C4
\* C4: the record of a point whose folder is absent and the record of a point
\* whose engine call raised differ in what they carry besides the point
\* itself (the status), so the two outcomes can be told apart.
Payload(r) == [f \in (DOMAIN r) \ {"steps", "eta"} |-> r[f]]

C4_MissingAndErrorDiffer ==
    \A a, b \in DOMAIN results :
        (Absent(a) /\ Raised(b)) => Payload(results[a]) # Payload(results[b])

\* ------------------------------------------------------------------- C5
\* C5: the best (worst) record written to the text report and printed in the
\* console summary is a record of a point whose engine call returned, its
\* metric is <= (>=) that of every such record, and among records sharing the
\* extreme it is the first in grid order; a record without metric is never
\* chosen.
IsBest(r) ==
    \E k \in DOMAIN results :
        /\ results[k] = r
        /\ Returned(k) /\ r.fid = ReturnedValue(k)
        /\ \A m \in DOMAIN results : Returned(m) => r.fid <= ReturnedValue(m)
        /\ \A m \in DOMAIN results : (Returned(m) /\ m < k) => ReturnedValue(m) > r.fid

IsWorst(r) ==
    \E k \in DOMAIN results :
        /\ results[k] = r
        /\ Returned(k) /\ r.fid = ReturnedValue(k)
        /\ \A m \in DOMAIN results : Returned(m) => r.fid >= ReturnedValue(m)
        /\ \A m \in DOMAIN results : (Returned(m) /\ m < k) => ReturnedValue(m) < r.fid

C5_BestWorstFirstExtreme ==
    /\ textfile.state = "written" => (IsBest(textfile.best) /\ IsWorst(textfile.worst))
    /\ printed # NoFile => (IsBest(printed.best) /\ IsWorst(printed.worst))

C5_Witness ==
    /\ printed # NoFile
    /\ \E a, b, c, d \in DOMAIN results :
         /\ a < b /\ Returned(a) /\ Returned(b)
         /\ ReturnedValue(a) = ReturnedValue(b)
         /\ printed.best = results[a]
         /\ Returned(c) /\ ReturnedValue(c) > ReturnedValue(a)
         /\ results[d].fid = None

\* ------------------------------------------------------------------- C6
\* C6: with the reference path absent, no grid point is processed unless the
\* warning was issued and the answer was y or Y; any other answer ends the run
\* with no engine call, no record and no artifact; after y/Y the run is not
\* aborted; the answer is awaited before anything is recorded; with the
\* reference present no warning is issued and no answer is read.
C6_ReferenceDecision ==
    /\ (~reference_exists /\ (current > 0 \/ SweepDone \/ pc \in {"sweep", "engine"})) =>
         (warned /\ user_input \in {"y", "Y"})
    /\ user_input \notin {"none", "y", "Y"} =>
         /\ pc = "aborted" /\ exc = "none"
         /\ calls = <<>> /\ results = <<>> /\ current = 0
         /\ NoArtifact /\ printed = NoFile /\ pivot_table = NoFile
    /\ user_input \in {"y", "Y"} => pc # "aborted"
    /\ pc = "prompt" =>
         (warned /\ exc = "none" /\ results = <<>> /\ calls = <<>> /\ current = 0 /\ NoArtifact)
    /\ reference_exists => (~warned /\ user_input = "none" /\ pc \notin {"prompt", "aborted"})

C6_Witness ==
    ~reference_exists /\ warned /\ user_input = "Y" /\ pc = "done" /\ Len(calls) > 0

\* ------------------------------------------------------------------- C7
\* C7: the artifacts are written in the order workbook, delimited file, text
\* report; an I/O failure while writing one stops the run there: no later
\* artifact exists, the summary is never printed, and the run does not reach
\* its end; an engine error during the sweep does not stop the run.
C7_WriteFailureIsFatal ==
    /\ csvfile # NoFile => workbook # NoFile
    /\ textfile # NoFile => csvfile # NoFile
    /\ printed # NoFile => (textfile # NoFile /\ textfile.state = "written")
    /\ exc = "OSError" =>
         /\ pc \in {"excel", "csv", "txt"}
         /\ printed = NoFile
         /\ pc = "excel" => NoArtifact
         /\ pc = "csv" => (csvfile = NoFile /\ textfile = NoFile)
         /\ pc = "txt" => textfile.state # "written"
    /\ (\E a \in DOMAIN calls : calls[a].state = "raised") => exc # "OSError" \/ SweepDone

C7_Witness ==
    /\ exc = "OSError" /\ pc = "csv"
    /\ workbook # NoFile
    /\ \E a \in DOMAIN calls : calls[a].state = "raised"

\* ------------------------------------------------------------------- C8
\* C8: the pivot table has one row per distinct steps value in ascending
\* order, one column per distinct eta value in the order of the eta input
\* list, and each cell holds the point's metric when its engine call returned
\* and None otherwise.
C8_PivotShape ==
    pivot_table # NoFile =>
        /\ pivot_table.index = SortSet(Range(steps_list))
        /\ pivot_table.columns = eta_list
        /\ \A k \in DOMAIN results :
             pivot_table.cell[<<PointSteps(k), PointEta(k)>>] =
                IF Returned(k) THEN ReturnedValue(k) ELSE None

\* ------------------------------------------------------------------- C9
\* C9: each group average of the workbook sheets and of the text report is
\* the mean of exactly the metrics of the returned engine calls of that group
\* (sum and count), a group without any keeps its entry with an undefined
\* average, and the groups are listed in the order of the input list (the
\* workbook is looked at in runs where at least one engine call returned).
OkSum(K) == SumOver([k \in DOMAIN results |-> IF Returned(k) THEN ReturnedValue(k) ELSE 0], K)

GroupOk(entries, inputs, byEta) ==
    /\ Len(entries) = Len(inputs)
    /\ \A g \in DOMAIN entries :
         LET K == {k \in DOMAIN results :
                     (IF byEta THEN PointEta(k) ELSE PointSteps(k)) = inputs[g]}
             R == {k \in K : Returned(k)}
         IN /\ entries[g].key = inputs[g]
            /\ entries[g].avg.cnt = Cardinality(R)
            /\ entries[g].avg.sum = OkSum(R)

C9_GroupAverages ==
    /\ (workbook # NoFile /\ \E k \in DOMAIN results : Returned(k)) =>
         /\ GroupOk(workbook.Avg_by_Eta, eta_list, TRUE)
         /\ GroupOk(workbook.Avg_by_Steps, steps_list, FALSE)
    /\ textfile.state = "written" =>
         /\ GroupOk(textfile.avg_by_eta, eta_list, TRUE)
         /\ GroupOk(textfile.avg_by_steps, steps_list, FALSE)

\* ------------------------------------------------------------------ C10
\* C10: the engine is invoked at most once per grid point, in grid order, and
\* only with the folder of a point whose folder exists; a call is pending only
\* while the run waits in it, and no further point has been examined then;
\* without the samples root the run ends with no call, no record, no artifact.
C10_EngineCalls ==
    /\ \A a, b \in DOMAIN calls : a < b => calls[a].point < calls[b].point
    /\ \A a \in DOMAIN calls :
         /\ calls[a].point \in 1..current
         /\ calls[a].path \in folders
         /\ calls[a].path = FolderName(PointSteps(calls[a].point), PointEta(calls[a].point))
         /\ calls[a].state = "pending" =>
               (a = Len(calls) /\ pc = "engine" /\ calls[a].point = current)
    /\ pc = "engine" =>
         /\ calls # <<>> /\ calls[Len(calls)].state = "pending"
         /\ Len(results) = current - 1
    /\ pc # "engine" /\ exc = "none" => Len(results) = current
    /\ ~samples_exists =>
         /\ pc \in {"start", "no_samples"}
         /\ calls = <<>> /\ results = <<>> /\ current = 0
         /\ NoArtifact /\ printed = NoFile

C10_Witness ==
    /\ pc = "done"
    /\ Len(results) = 4 /\ Len(calls) = 2
    /\ Absent(1) /\ Absent(3)
    /\ calls[1].state = "raised" /\ calls[2].state = "returned"

====
